---- MODULE Spec2Model ----
(***************************************************************************)
(* Credit approval system (Django): customers, loans, the credit score,    *)
(* the eligibility decision, the HTTP views and the ingestion tasks.       *)
(*                                                                         *)
(* Units.  monthly_salary, approved_limit and loan_amount are whole        *)
(* currency units.  Installments are floats in the code; a float amount is *)
(* a record [cents, rem, den] standing for (cents + rem/den) / 100, so     *)
(* that the unrounded quotient principal / tenure is told apart from a     *)
(* value rounded to 2 decimals.  A DecimalField(decimal_places = 2) column *)
(* holds integer cents.  Interest rates are whole percents.  Dates are day *)
(* numbers, DaysPerYear days to a year; NULL is the SQL NULL of a date.    *)
(***************************************************************************)
EXTENDS Integers, Sequences, FiniteSets, TLC

VARIABLES
    customers,  \* table customers: id -> [monthly_salary, approved_limit]
    loans,      \* table loans: id -> Loan row
    today,      \* date.today()
    task,       \* the ingestion task in flight (Celery), or Idle
    request,    \* the call or HTTP request handled last
    response    \* what it returned

vars == <<customers, loans, today, task, request, response>>

-----------------------------------------------------------------------------
(* Bounds of the model *)

MaxHistory == 6        \* loans in a drawn loan history
MaxCustomers == 1      \* customer ids
MaxLoans == 2          \* rows of the table loans
MaxRows == 1           \* rows of an ingested file
DaysPerYear == 2       \* days to a calendar year
MaxIncomeSteps == 100  \* incomes tried on calculate_approved_limit

(* Program constants *)

NULL == -1
Lakh == 100000
LimitMultiplier == 36
DefaultScore == 50
OnTimeWeight == 35
MinRate2 == 12
MinRate3 == 16
MaxRetries == 3
TextCell == -999

-----------------------------------------------------------------------------
(* Arithmetic *)

Abs(x) == IF x < 0 THEN -x ELSE x

RECURSIVE GCD(_, _)
GCD(a, b) == IF b = 0 THEN a ELSE GCD(b, a % b)

\* Python round(num / den) for den > 0: to nearest, ties to the even integer.
PyRound(num, den) ==
    LET q == num \div den
        r == num % den
    IN  IF 2 * r < den THEN q
        ELSE IF 2 * r > den THEN q + 1
        ELSE IF q % 2 = 0 THEN q ELSE q + 1

\* Python int(num / den) for den > 0: truncation toward zero.
PyInt(num, den) == IF num >= 0 THEN num \div den ELSE -((-num) \div den)

\* A float amount that is a whole number of cents.
Cents(c) == [cents |-> c, rem |-> 0, den |-> 1]

\* The float num / n (n # 0), num in cents, not rounded.
Quot(num, n) ==
    LET a == IF n < 0 THEN -num ELSE num
        b == Abs(n)
        r == a % b
        g == GCD(b, r)
    IN  [cents |-> a \div b, rem |-> r \div g, den |-> b \div g]

\* A float written to a DecimalField(decimal_places = 2) column: quantized
\* to whole cents (to nearest, ties to even).
ToDecimal2(x) == PyRound(x.cents * x.den + x.rem, x.den)

year(d) == d \div DaysPerYear

-----------------------------------------------------------------------------
(* Tables and queries (loans/models.py and the ORM calls of the code) *)

\* A row of the table loans.
Loan(customer, loan_amount, tenure, interest_rate, monthly_repayment, emis_paid_on_time, start_date, end_date) ==
    [customer |-> customer, loan_amount |-> loan_amount, tenure |-> tenure,
     interest_rate |-> interest_rate, monthly_repayment |-> monthly_repayment,
     emis_paid_on_time |-> emis_paid_on_time, start_date |-> start_date,
     end_date |-> end_date]

\* A row of the table customers.
Customer(monthly_salary, approved_limit) ==
    [monthly_salary |-> monthly_salary, approved_limit |-> approved_limit]

\* customer.loans.all(): the ids of the customer's loans.
customer_loans(cid) == {i \in DOMAIN loans : loans[i].customer = cid}

\* The lookup end_date__gte = d: SQL "end_date >= d", which no row with a
\* NULL end_date satisfies.
end_date__gte(l, d) == l.end_date # NULL /\ l.end_date >= d

\* The lookup start_date__year = y; NULL start dates do not match.
start_date__year(l, y) == l.start_date # NULL /\ year(l.start_date) = y

\* sum(f[i] for i in S)
RECURSIVE Sum(_, _)
Sum(f, S) ==
    IF S = {} THEN 0
    ELSE LET i == CHOOSE j \in S : TRUE IN f[i] + Sum(f, S \ {i})

\* Loan.repayments_left
repayments_left(l) ==
    IF l.tenure - l.emis_paid_on_time > 0 THEN l.tenure - l.emis_paid_on_time
    ELSE 0

-----------------------------------------------------------------------------
(* loans/services.py *)

calculate_approved_limit(monthly_salary) ==
    LET raw == LimitMultiplier * monthly_salary
    IN  PyRound(raw, Lakh) * Lakh

\* round(emi, 2) of line 33, in cents, at the principals, rates and tenures
\* the model uses: P * r * (1 + r)^n / ((1 + r)^n - 1) with r = rate / 1200,
\* evaluated in double precision.
EmiTable ==
    <<100000, 5, -12>> :> -814408 @@ <<100000, 5, 3>> :> 3361150 @@ <<100000, 5, 24>> :> 438714 @@
    <<100000, 12, -12>> :> -788488 @@ <<100000, 12, 3>> :> 3400221 @@ <<100000, 12, 24>> :> 470735 @@
    <<100000, 15, -12>> :> -777583 @@ <<100000, 15, 3>> :> 3417012 @@ <<100000, 15, 24>> :> 484866 @@
    <<100000, 16, -12>> :> -773975 @@ <<100000, 16, 3>> :> 3422615 @@ <<100000, 16, 24>> :> 489631 @@
    <<100000, 20, -12>> :> -759678 @@ <<100000, 20, 3>> :> 3445057 @@ <<100000, 20, 24>> :> 508958 @@
    <<500000, 5, -12>> :> -4072041 @@ <<500000, 5, 3>> :> 16805748 @@ <<500000, 5, 24>> :> 2193569 @@
    <<500000, 12, -12>> :> -3942439 @@ <<500000, 12, 3>> :> 17001106 @@ <<500000, 12, 24>> :> 2353674 @@
    <<500000, 15, -12>> :> -3887916 @@ <<500000, 15, 3>> :> 17085059 @@ <<500000, 15, 24>> :> 2424332 @@
    <<500000, 16, -12>> :> -3869876 @@ <<500000, 16, 3>> :> 17113073 @@ <<500000, 16, 24>> :> 2448156 @@
    <<500000, 20, -12>> :> -3798392 @@ <<500000, 20, 3>> :> 17225283 @@ <<500000, 20, 24>> :> 2544790

\* A call that returns v, and a call that ends in ZeroDivisionError.
Return(v) == [raised |-> FALSE, value |-> v]
ZeroDivisionError == [raised |-> TRUE, value |-> "ZeroDivisionError"]

\* Returns the installment as a float amount, or raises: with a zero rate
\* the quotient principal / tenure is returned as it is, not rounded; with
\* a tenure of 0 both branches divide by zero.
calculate_monthly_installment(principal, annual_rate, tenure_months) ==
    IF annual_rate = 0
    THEN IF tenure_months = 0 THEN ZeroDivisionError
         ELSE Return(Quot(100 * principal, tenure_months))
    ELSE IF tenure_months = 0 THEN ZeroDivisionError
         ELSE Return(Cents(EmiTable[<<principal, annual_rate, tenure_months>>]))

\* Component 2 of the score, by the number of loans.
loan_count_score(total_loans) ==
    IF total_loans <= 3 THEN 20
    ELSE IF total_loans <= 6 THEN 15
    ELSE IF total_loans <= 10 THEN 10
    ELSE 5

\* Component 3 of the score, by the number of loans started this year.
activity_score(current_year_loans) ==
    IF current_year_loans = 0 THEN 20
    ELSE IF current_year_loans <= 2 THEN 15
    ELSE IF current_year_loans <= 4 THEN 10
    ELSE 5

\* Component 4 of the score: volume_ratio = total_loan_volume /
\* approved_limit, taken as 1 when the limit is not positive.
volume_score(total_loan_volume, approved_limit) ==
    LET num == IF approved_limit > 0 THEN total_loan_volume ELSE 1
        den == IF approved_limit > 0 THEN approved_limit ELSE 1
    IN  IF 2 * num <= den THEN 25
        ELSE IF num <= den THEN 20
        ELSE IF num <= 2 * den THEN 10
        ELSE 5

\* calculate_credit_score with the on-time component subtracted from the
\* three others.
calculate_credit_score_on_late(customer, rows, d) ==
    LET all == DOMAIN rows
        current_loans == {i \in all : end_date__gte(rows[i], d)}
        total_current_loan_amount ==
            Sum([i \in current_loans |-> rows[i].loan_amount], current_loans)
        total_loans == Cardinality(all)
        total_emis == Sum([i \in all |-> rows[i].tenure], all)
        total_paid_on_time == Sum([i \in all |-> rows[i].emis_paid_on_time], all)
        current_year_loans ==
            Cardinality({i \in all : start_date__year(rows[i], year(d))})
        total_loan_volume == Sum([i \in all |-> rows[i].loan_amount], all)
        fixed == loan_count_score(total_loans)
                 + activity_score(current_year_loans)
                 + volume_score(total_loan_volume, customer.approved_limit)
        total_score ==
            IF total_emis > 0
            THEN PyInt(fixed * total_emis - OnTimeWeight * total_paid_on_time,
                       total_emis)
            ELSE fixed
    IN  IF total_current_loan_amount > customer.approved_limit THEN 0
        ELSE IF total_loans = 0 THEN DefaultScore
        ELSE IF total_score > 100 THEN 100 ELSE total_score

\* The body of calculate_credit_score on a customer row, the rows of the
\* customer's loans (customer.loans.all()) and the value d of date.today().
calculate_credit_score_on(customer, rows, d) ==
    LET all == DOMAIN rows
        current_loans == {i \in all : end_date__gte(rows[i], d)}
        total_current_loan_amount ==
            Sum([i \in current_loans |-> rows[i].loan_amount], current_loans)
        total_loans == Cardinality(all)
        total_emis == Sum([i \in all |-> rows[i].tenure], all)
        total_paid_on_time == Sum([i \in all |-> rows[i].emis_paid_on_time], all)
        current_year_loans ==
            Cardinality({i \in all : start_date__year(rows[i], year(d))})
        total_loan_volume == Sum([i \in all |-> rows[i].loan_amount], all)
        fixed == loan_count_score(total_loans)
                 + activity_score(current_year_loans)
                 + volume_score(total_loan_volume, customer.approved_limit)
        \* int(on_time_ratio * 35 + the three other components)
        total_score ==
            IF total_emis > 0
            THEN PyInt(OnTimeWeight * total_paid_on_time + fixed * total_emis,
                       total_emis)
            ELSE fixed
    IN  IF total_current_loan_amount > customer.approved_limit THEN 0
        ELSE IF total_loans = 0 THEN DefaultScore
        ELSE IF total_score > 100 THEN 100 ELSE total_score

\* calculate_credit_score(customer) on the stored tables.
calculate_credit_score(cid) ==
    calculate_credit_score_on(customers[cid],
                              [i \in customer_loans(cid) |-> loans[i]], today)

\* rate_policy with the boundary score 50 put in the upper tier.
rate_policy_upper50(credit_score, interest_rate) ==
    IF credit_score >= 50
    THEN [approval |-> TRUE, corrected_rate |-> interest_rate]
    ELSE IF 30 < credit_score /\ credit_score <= 50
    THEN IF interest_rate > MinRate2
         THEN [approval |-> TRUE, corrected_rate |-> interest_rate]
         ELSE [approval |-> TRUE, corrected_rate |-> MinRate2]
    ELSE IF 10 < credit_score /\ credit_score <= 30
    THEN IF interest_rate > MinRate3
         THEN [approval |-> TRUE, corrected_rate |-> interest_rate]
         ELSE [approval |-> TRUE, corrected_rate |-> MinRate3]
    ELSE [approval |-> FALSE, corrected_rate |-> interest_rate]

\* The approval and the corrected rate for a credit score (lines 127-150).
rate_policy(credit_score, interest_rate) ==
    IF credit_score > 50
    THEN [approval |-> TRUE, corrected_rate |-> interest_rate]
    ELSE IF 30 < credit_score /\ credit_score <= 50
    THEN IF interest_rate > MinRate2
         THEN [approval |-> TRUE, corrected_rate |-> interest_rate]
         ELSE [approval |-> TRUE, corrected_rate |-> MinRate2]
    ELSE IF 10 < credit_score /\ credit_score <= 30
    THEN IF interest_rate > MinRate3
         THEN [approval |-> TRUE, corrected_rate |-> interest_rate]
         ELSE [approval |-> TRUE, corrected_rate |-> MinRate3]
    ELSE [approval |-> FALSE, corrected_rate |-> interest_rate]

\* The 5-tuple check_loan_eligibility returns; customer = NULL is None.
Decision(customer, approval, interest_rate, corrected_rate, monthly_installment) ==
    [customer |-> customer, approval |-> approval,
     interest_rate |-> interest_rate, corrected_rate |-> corrected_rate,
     monthly_installment |-> monthly_installment]

\* The sum of the installments the burden check adds up, in cents.
total_current_emis(cid) ==
    LET current_loans == {i \in customer_loans(cid) : end_date__gte(loans[i], today)}
    IN  Sum([i \in current_loans |-> loans[i].monthly_repayment], current_loans)

\* total_current_emis > 0.5 * monthly_salary (salary in units, emis in cents)
burden_exceeded(cid) ==
    2 * total_current_emis(cid) > 100 * customers[cid].monthly_salary

\* check_loan_eligibility computing the installment before the customer is
\* looked up.
check_loan_eligibility_emi_first(customer_id, loan_amount, interest_rate, tenure) ==
    LET emi == calculate_monthly_installment(loan_amount, interest_rate, tenure)
    IN  IF emi.raised THEN emi
        ELSE IF customer_id \notin DOMAIN customers
        THEN Return(Decision(NULL, FALSE, interest_rate, interest_rate, emi.value))
        ELSE Return(Decision(customer_id, rate_policy(calculate_credit_score(customer_id),
                                                      interest_rate).approval,
                             interest_rate, interest_rate, emi.value))

check_loan_eligibility(customer_id, loan_amount, interest_rate, tenure) ==
    IF customer_id \notin DOMAIN customers
    THEN Return(Decision(NULL, FALSE, interest_rate, interest_rate, Cents(0)))
    ELSE IF burden_exceeded(customer_id)
    THEN LET emi == calculate_monthly_installment(loan_amount, interest_rate, tenure)
         IN  IF emi.raised THEN emi
             ELSE Return(Decision(customer_id, FALSE, interest_rate,
                                  interest_rate, emi.value))
    ELSE LET credit_score == calculate_credit_score(customer_id)
             p == rate_policy(credit_score, interest_rate)
             emi == calculate_monthly_installment(loan_amount, p.corrected_rate, tenure)
         IN  IF emi.raised THEN emi
             ELSE Return(Decision(customer_id, p.approval, interest_rate,
                                  p.corrected_rate, emi.value))

-----------------------------------------------------------------------------
(* Inputs of the model *)

\* Dates of the model, relative to the first value of date.today().
Today0 == DaysPerYear + 1          \* the second day of year 1
ThisYearStart == DaysPerYear       \* the first day of year 1, before Today0
LastYear == ThisYearStart - DaysPerYear  \* a day of year 0
NextYear == 2 * DaysPerYear        \* a day of year 2

Amounts == {100000, 500000}
Rates == {0, 5, 12, 15, 16, 20}
Tenures == {-12, 0, 3, 24}

Idle == [state |-> "idle"]
NoRequest == [op |-> "none"]
NoResponse == [raised |-> FALSE, value |-> "none"]

-----------------------------------------------------------------------------
(* The system: the HTTP views (loans/views.py) and the ingestion tasks    *)
(* (loans/tasks.py), on the two tables.                                    *)

\* objects.create(): the database assigns an id that is not in use (the
\* least one, in the model).
new_id(table) == CHOOSE i \in 1..(Cardinality(DOMAIN table) + 1) : i \notin DOMAIN table

\* The table with row r stored under id i (inserted or replaced).
Stored(table, i, r) == [j \in DOMAIN table \cup {i} |-> IF j = i THEN r ELSE table[j]]

CustomerIds == 1..MaxCustomers

Init ==
    /\ customers = <<>>
    /\ loans = <<>>
    /\ today = Today0
    /\ task = Idle
    /\ request = NoRequest
    /\ response = NoResponse

\* The body of a request the serializer rejects (a field missing).
Malformed == [valid |-> FALSE]

\* POST /register
RegisterCustomerView(data) ==
    /\ Cardinality(DOMAIN customers) < MaxCustomers
    /\ request' = [op |-> "register", data |-> data]
    /\ IF ~data.valid
       THEN /\ response' = [status |-> 400]
            /\ UNCHANGED customers
       ELSE LET approved_limit == calculate_approved_limit(data.monthly_income)
                id == new_id(customers)
            IN  /\ customers' = Stored(customers, id,
                                       Customer(data.monthly_income, approved_limit))
                /\ response' = [status |-> 201, customer_id |-> id,
                                monthly_income |-> data.monthly_income,
                                approved_limit |-> approved_limit]
    /\ UNCHANGED <<loans, today, task>>

\* CheckEligibilityView without the customer lookup of lines 110-116.
CheckEligibilityView_no_lookup(data) ==
    /\ request' = [op |-> "check-eligibility", data |-> data]
    /\ IF ~data.valid THEN response' = [status |-> 400]
       ELSE LET r == check_loan_eligibility(data.customer_id, data.loan_amount,
                                            data.interest_rate, data.tenure)
            IN  IF r.raised THEN response' = [status |-> 500]
                ELSE response' =
                       [status |-> 200, customer_id |-> data.customer_id,
                        approval |-> r.value.approval,
                        interest_rate |-> r.value.interest_rate,
                        corrected_interest_rate |-> r.value.corrected_rate,
                        tenure |-> data.tenure,
                        monthly_installment |-> r.value.monthly_installment]
    /\ UNCHANGED <<customers, loans, today, task>>

\* POST /check-eligibility
CheckEligibilityView(data) ==
    /\ request' = [op |-> "check-eligibility", data |-> data]
    /\ IF ~data.valid THEN response' = [status |-> 400]
       ELSE IF data.customer_id \notin DOMAIN customers
       THEN response' = [status |-> 404]
       ELSE LET r == check_loan_eligibility(data.customer_id, data.loan_amount,
                                            data.interest_rate, data.tenure)
            IN  IF r.raised THEN response' = [status |-> 500]
                ELSE response' =
                       [status |-> 200, customer_id |-> data.customer_id,
                        approval |-> r.value.approval,
                        interest_rate |-> r.value.interest_rate,
                        corrected_interest_rate |-> r.value.corrected_rate,
                        tenure |-> data.tenure,
                        monthly_installment |-> r.value.monthly_installment]
    /\ UNCHANGED <<customers, loans, today, task>>

\* CreateLoanView storing the loan whatever the decision says.
CreateLoanView_unapproved(data) ==
    /\ Cardinality(DOMAIN loans) < MaxLoans
    /\ request' = [op |-> "create-loan", data |-> data]
    /\ IF ~data.valid THEN response' = [status |-> 400] /\ UNCHANGED loans
       ELSE IF data.customer_id \notin DOMAIN customers
       THEN response' = [status |-> 404] /\ UNCHANGED loans
       ELSE LET r == check_loan_eligibility(data.customer_id, data.loan_amount,
                                            data.interest_rate, data.tenure)
                id == new_id(loans)
            IN  IF r.raised THEN response' = [status |-> 500] /\ UNCHANGED loans
                ELSE /\ loans' = Stored(loans, id,
                            Loan(data.customer_id, data.loan_amount, data.tenure,
                                 r.value.corrected_rate,
                                 ToDecimal2(r.value.monthly_installment),
                                 0, today, NULL))
                     /\ response' =
                          [status |-> IF r.value.approval THEN 201 ELSE 200,
                           loan_id |-> id,
                           customer_id |-> data.customer_id,
                           loan_approved |-> r.value.approval,
                           monthly_installment |-> r.value.monthly_installment]
    /\ UNCHANGED <<customers, today, task>>

\* POST /create-loan
CreateLoanView(data) ==
    /\ Cardinality(DOMAIN loans) < MaxLoans
    /\ request' = [op |-> "create-loan", data |-> data]
    /\ IF ~data.valid THEN response' = [status |-> 400] /\ UNCHANGED loans
       ELSE IF data.customer_id \notin DOMAIN customers
       THEN response' = [status |-> 404] /\ UNCHANGED loans
       ELSE LET r == check_loan_eligibility(data.customer_id, data.loan_amount,
                                            data.interest_rate, data.tenure)
                id == new_id(loans)
            IN  IF r.raised THEN response' = [status |-> 500] /\ UNCHANGED loans
                ELSE IF ~r.value.approval
                THEN /\ response' =
                          [status |-> 200, loan_id |-> NULL,
                           customer_id |-> data.customer_id,
                           loan_approved |-> FALSE,
                           monthly_installment |-> r.value.monthly_installment]
                     /\ UNCHANGED loans
                ELSE /\ loans' = Stored(loans, id,
                            Loan(data.customer_id, data.loan_amount, data.tenure,
                                 r.value.corrected_rate,
                                 ToDecimal2(r.value.monthly_installment),
                                 0, today, NULL))
                     /\ response' =
                          [status |-> 201, loan_id |-> id,
                           customer_id |-> data.customer_id,
                           loan_approved |-> TRUE,
                           monthly_installment |-> r.value.monthly_installment]
    /\ UNCHANGED <<customers, today, task>>

\* GET /view-loan/<loan_id>
ViewLoanView(loan_id) ==
    /\ request' = [op |-> "view-loan", loan_id |-> loan_id]
    /\ IF loan_id \notin DOMAIN loans THEN response' = [status |-> 404]
       ELSE response' =
              [status |-> 200, loan_id |-> loan_id,
               customer |-> loans[loan_id].customer,
               loan_amount |-> loans[loan_id].loan_amount,
               interest_rate |-> loans[loan_id].interest_rate,
               monthly_installment |-> loans[loan_id].monthly_repayment,
               tenure |-> loans[loan_id].tenure]
    /\ UNCHANGED <<customers, loans, today, task>>

\* An entry of the list GET /view-loans/<customer_id> returns.
LoanListItem(i) ==
    [loan_id |-> i, loan_amount |-> loans[i].loan_amount,
     interest_rate |-> loans[i].interest_rate,
     monthly_installment |-> loans[i].monthly_repayment,
     repayments_left |-> repayments_left(loans[i])]

\* GET /view-loans/<customer_id>: Loan.objects.filter(customer = customer)
ViewLoansByCustomerView(customer_id) ==
    /\ request' = [op |-> "view-loans", customer_id |-> customer_id]
    /\ IF customer_id \notin DOMAIN customers THEN response' = [status |-> 404]
       ELSE response' = [status |-> 200,
                         items |-> {LoanListItem(i) : i \in customer_loans(customer_id)}]
    /\ UNCHANGED <<customers, loans, today, task>>

\* A cell of a spreadsheet row: a number, NULL for an empty cell, or
\* TextCell for a text that int() and float() reject.
truthy(cell) == cell # NULL /\ cell # 0

\* "float(x) if x else 0" and "int(x) if x else 0"
number_or_0(cell) == IF truthy(cell) THEN cell ELSE 0

CustomerCells(row) == {row.customer_id, row.monthly_salary, row.approved_limit}

\* The rows of a customer file from row i on (lines 27-56): the table they
\* leave, the counts, and whether a row raised.  Rows stored before a row
\* raises stay stored.
RECURSIVE ingest_customer_rows(_, _, _, _, _)
ingest_customer_rows(rows, i, table, created, updated) ==
    IF i > Len(rows)
    THEN [raised |-> FALSE, table |-> table,
          result |-> [created |-> created, updated |-> updated]]
    ELSE LET row == rows[i] IN
         IF \A c \in CustomerCells(row) : ~truthy(c)
         THEN ingest_customer_rows(rows, i + 1, table, created, updated)
         ELSE IF ~truthy(row.customer_id)
         THEN ingest_customer_rows(rows, i + 1, table, created, updated)
         ELSE IF TextCell \in CustomerCells(row)
         THEN [raised |-> TRUE, table |-> table,
               result |-> [created |-> created, updated |-> updated]]
         ELSE LET c == Customer(number_or_0(row.monthly_salary),
                                number_or_0(row.approved_limit))
              IN  IF row.customer_id \in DOMAIN table
                  THEN ingest_customer_rows(rows, i + 1,
                           Stored(table, row.customer_id, c), created, updated + 1)
                  ELSE ingest_customer_rows(rows, i + 1,
                           Stored(table, row.customer_id, c), created + 1, updated)

\* parse_date of lines 108-121: a date, or None for an empty cell and for a
\* text in neither format.
parse_date(d) == IF d = TextCell THEN NULL ELSE d

LoanCells(row) ==
    {row.customer_id, row.loan_id, row.loan_amount, row.tenure, row.interest_rate,
     row.monthly_repayment, row.emis_paid_on_time, row.start_date, row.end_date}

\* The rows of a loan file from row i on (lines 84-137).
RECURSIVE ingest_loan_rows(_, _, _, _, _)
ingest_loan_rows(rows, i, table, created, skipped) ==
    IF i > Len(rows)
    THEN [raised |-> FALSE, table |-> table,
          result |-> [created |-> created, skipped |-> skipped]]
    ELSE LET row == rows[i] IN
         IF \A c \in LoanCells(row) : ~truthy(c)
         THEN ingest_loan_rows(rows, i + 1, table, created, skipped)
         ELSE IF row.customer_id = TextCell
         THEN [raised |-> TRUE, table |-> table,
               result |-> [created |-> created, skipped |-> skipped]]
         ELSE IF row.customer_id \notin DOMAIN customers
         THEN ingest_loan_rows(rows, i + 1, table, created, skipped + 1)
         ELSE IF TextCell \in {row.loan_id, row.loan_amount, row.tenure,
                               row.interest_rate, row.monthly_repayment,
                               row.emis_paid_on_time}
         THEN [raised |-> TRUE, table |-> table,
               result |-> [created |-> created, skipped |-> skipped]]
         ELSE LET l == Loan(row.customer_id, number_or_0(row.loan_amount),
                            number_or_0(row.tenure), number_or_0(row.interest_rate),
                            number_or_0(row.monthly_repayment),
                            number_or_0(row.emis_paid_on_time),
                            parse_date(row.start_date), parse_date(row.end_date))
              IN  IF row.loan_id \in DOMAIN table
                  THEN ingest_loan_rows(rows, i + 1, Stored(table, row.loan_id, l),
                                        created, skipped)
                  ELSE IF ~truthy(row.loan_id)
                  THEN ingest_loan_rows(rows, i + 1, Stored(table, new_id(table), l),
                                        created + 1, skipped)
                  ELSE ingest_loan_rows(rows, i + 1, Stored(table, row.loan_id, l),
                                        created + 1, skipped)

\* TaskOutcome scheduling one retry more than max_retries.
TaskOutcome_one_more(name, file, retries, r) ==
    IF ~r.raised
    THEN /\ task' = Idle
         /\ response' = [status |-> "SUCCESS", result |-> r.result]
    ELSE IF retries <= MaxRetries
    THEN /\ task' = [state |-> "retry", name |-> name, file |-> file,
                     retries |-> retries + 1]
         /\ response' = [status |-> "RETRY"]
    ELSE /\ task' = Idle
         /\ response' = [status |-> "FAILURE"]

\* What an attempt of a task leaves behind: a result, a retry that Celery
\* schedules (self.retry, at most max_retries of them), or the failure.
TaskOutcome(name, file, retries, r) ==
    IF ~r.raised
    THEN /\ task' = Idle
         /\ response' = [status |-> "SUCCESS", result |-> r.result]
    ELSE IF retries < MaxRetries
    THEN /\ task' = [state |-> "retry", name |-> name, file |-> file,
                     retries |-> retries + 1]
         /\ response' = [status |-> "RETRY"]
    ELSE /\ task' = Idle
         /\ response' = [status |-> "FAILURE"]

\* One run of the task ingest_customer_data(file_path).
ingest_customer_data(file, retries) ==
    LET r == ingest_customer_rows(file, 1, customers, 0, 0)
    IN  /\ request' = [op |-> "ingest_customer_data", file |-> file,
                       retries |-> retries]
        /\ customers' = r.table
        /\ TaskOutcome("ingest_customer_data", file, retries, r)
        /\ UNCHANGED <<loans, today>>

\* One run of the task ingest_loan_data(file_path).
ingest_loan_data(file, retries) ==
    LET r == ingest_loan_rows(file, 1, loans, 0, 0)
    IN  /\ Cardinality(DOMAIN loans) + Len(file) <= MaxLoans
        /\ request' = [op |-> "ingest_loan_data", file |-> file,
                       retries |-> retries]
        /\ loans' = r.table
        /\ TaskOutcome("ingest_loan_data", file, retries, r)
        /\ UNCHANGED <<customers, today>>

\* A task is queued and runs for the first time.
IngestCustomerData(file) == task = Idle /\ ingest_customer_data(file, 0)

IngestLoanData(file) == task = Idle /\ ingest_loan_data(file, 0)

\* Celery runs a scheduled retry.
RetryTask ==
    /\ task.state = "retry"
    /\ IF task.name = "ingest_customer_data"
       THEN ingest_customer_data(task.file, task.retries)
       ELSE ingest_loan_data(task.file, task.retries)

\* The requests and files of the model.
RegistrationData ==
    {Malformed} \cup {[valid |-> TRUE, monthly_income |-> x] : x \in {-10000, 100000}}

\* A zero-rate request, and requests with a tenure of zero and below.
LoanRequestData ==
    {Malformed} \cup
    {[valid |-> TRUE, customer_id |-> c, loan_amount |-> 100000,
      interest_rate |-> rn[1], tenure |-> rn[2]] :
        c \in CustomerIds, rn \in {<<0, 3>>, <<15, 0>>, <<15, -12>>}}

CustomerRows == {
    [customer_id |-> 1, monthly_salary |-> 12500, approved_limit |-> 250000],
    [customer_id |-> NULL, monthly_salary |-> 40000, approved_limit |-> 400000],
    [customer_id |-> 1, monthly_salary |-> TextCell, approved_limit |-> 400000] }

LoanRows == {
    \* closed, paid on time, for customer 1
    [customer_id |-> 1, loan_id |-> 1, loan_amount |-> 100000, tenure |-> 12,
     interest_rate |-> 10, monthly_repayment |-> 879159, emis_paid_on_time |-> 12,
     start_date |-> LastYear, end_date |-> ThisYearStart],
    \* running, without a loan id, for customer 1
    [customer_id |-> 1, loan_id |-> NULL, loan_amount |-> 200000, tenure |-> 12,
     interest_rate |-> 10, monthly_repayment |-> 2000000, emis_paid_on_time |-> 0,
     start_date |-> Today0, end_date |-> NextYear],
    \* a text in the tenure cell
    [customer_id |-> 1, loan_id |-> 2, loan_amount |-> 100000, tenure |-> TextCell,
     interest_rate |-> 10, monthly_repayment |-> 879159, emis_paid_on_time |-> 0,
     start_date |-> LastYear, end_date |-> NULL] }

Files(Rows) == UNION {[1..n -> Rows] : n \in 1..MaxRows}

Next ==
    \/ \E data \in RegistrationData : RegisterCustomerView(data)
    \/ \E data \in LoanRequestData : CheckEligibilityView(data)
    \/ \E data \in LoanRequestData : CreateLoanView(data)
    \/ \E loan_id \in 1..MaxLoans : ViewLoanView(loan_id)
    \/ \E customer_id \in CustomerIds : ViewLoansByCustomerView(customer_id)
    \/ \E file \in Files(CustomerRows) : IngestCustomerData(file)
    \/ \E file \in Files(LoanRows) : IngestLoanData(file)
    \/ RetryTask

Spec == Init /\ [][Next]_vars

-----------------------------------------------------------------------------
(* The scoring and decision engine on drawn snapshots of the two tables:   *)
(* one customer (id 1) and a loan history of at most MaxHistory loans.     *)

\* The customer of a snapshot: income 40,000 and a positive, a zero or a
\* negative approved limit.
SnapshotCustomers ==
    {Customer(40000, 400000), Customer(40000, 0), Customer(40000, -400000)}

\* The loans a drawn history is made of.
HistoryLoans == <<
    \* closed, every installment paid on time, started last year
    Loan(1, 100000, 12, 10, 879159, 12, LastYear, ThisYearStart),
    \* running, its end date is today; installment 20,000.00
    Loan(1, 200000, 12, 10, 2000000, 0, Today0, Today0),
    \* open-ended (end_date NULL), as CreateLoanView stores a loan
    Loan(1, 200000, 24, 15, 969733, 0, Today0, NULL),
    \* closed, started this year, nothing paid on time
    Loan(1, 300000, 12, 10, 2637477, 0, ThisYearStart, ThisYearStart),
    \* closed, started this year, a negative count of installments on time
    Loan(1, 300000, 4, 10, 7688042, -3, ThisYearStart, ThisYearStart),
    \* closed, more installments on time than its tenure, no start date
    Loan(1, 100000, 12, 10, 879159, 24, NULL, ThisYearStart),
    \* closed, tenure 0 (an ingested row without tenure)
    Loan(1, 100000, 0, 0, 0, 0, NULL, LastYear) >>

\* Histories of at most n loans, as non-decreasing sequences of indices of
\* HistoryLoans (the order of the rows of a history is irrelevant).
RECURSIVE Histories(_)
Histories(n) ==
    IF n = 0 THEN {<<>>}
    ELSE LET H == Histories(n - 1)
         IN  H \cup UNION {{Append(h, k) :
                                k \in (IF h = <<>> THEN 1 ELSE h[Len(h)])..Len(HistoryLoans)} :
                            h \in {g \in H : Len(g) = n - 1}}

NonDecreasing(h) == \A i \in 1..(Len(h) - 1) : h[i] <= h[i + 1]

SnapshotLoans ==
    {[i \in 1..Len(h) |-> HistoryLoans[h[i]]] :
        h \in {g \in Histories(MaxHistory) : NonDecreasing(g)}}

EngineInit ==
    /\ customers \in {(1 :> c) : c \in SnapshotCustomers}
    /\ loans \in SnapshotLoans
    /\ today = Today0
    /\ task = Idle
    /\ request = NoRequest
    /\ response = NoResponse

\* score = calculate_credit_score(customer)
ScoreCall(cid) ==
    /\ cid \in DOMAIN customers
    /\ request' = [op |-> "calculate_credit_score", customer_id |-> cid]
    /\ response' = Return(calculate_credit_score(cid))
    /\ UNCHANGED <<customers, loans, today, task>>

\* check_loan_eligibility(customer_id, loan_amount, interest_rate, tenure)
EligibilityCall(cid, loan_amount, interest_rate, tenure) ==
    /\ request' = [op |-> "check_loan_eligibility", customer_id |-> cid,
                   loan_amount |-> loan_amount, interest_rate |-> interest_rate,
                   tenure |-> tenure]
    /\ response' = check_loan_eligibility(cid, loan_amount, interest_rate, tenure)
    /\ UNCHANGED <<customers, loans, today, task>>

EngineNext ==
    \/ \E cid \in {1} : ScoreCall(cid)
    \/ \E cid \in {1, 2}, r \in Rates \ {0}, n \in {0, 24} :
           EligibilityCall(cid, 100000, r, n)

EngineSpec == EngineInit /\ [][EngineNext]_vars

-----------------------------------------------------------------------------
(* The two calculators on bounded inputs *)

IncomeStep == 1250
Incomes == {k * IncomeStep : k \in 0..MaxIncomeSteps}

CalcInit ==
    /\ customers = <<>>
    /\ loans = <<>>
    /\ today = Today0
    /\ task = Idle
    /\ request = NoRequest
    /\ response = NoResponse

\* calculate_approved_limit(monthly_salary)
LimitCall(monthly_salary) ==
    /\ request' = [op |-> "calculate_approved_limit",
                   monthly_salary |-> monthly_salary]
    /\ response' = Return(calculate_approved_limit(monthly_salary))
    /\ UNCHANGED <<customers, loans, today, task>>

\* calculate_monthly_installment(principal, annual_rate, tenure_months)
InstallmentCall(principal, annual_rate, tenure_months) ==
    /\ request' = [op |-> "calculate_monthly_installment",
                   principal |-> principal, annual_rate |-> annual_rate,
                   tenure_months |-> tenure_months]
    /\ response' = calculate_monthly_installment(principal, annual_rate, tenure_months)
    /\ UNCHANGED <<customers, loans, today, task>>

CalcNext ==
    \/ \E x \in Incomes : LimitCall(x)
    \/ \E p \in Amounts, r \in Rates, n \in Tenures : InstallmentCall(p, r, n)

CalcSpec == CalcInit /\ [][CalcNext]_vars

-----------------------------------------------------------------------------
(* Properties of the scoring and decision engine (EngineSpec) *)

\* A current loan as the specification defines it: the end date is absent
\* or is today or later.
IsCurrentLoan(l) == l.end_date = NULL \/ l.end_date >= today

CurrentLoansOf(cid) == {i \in customer_loans(cid) : IsCurrentLoan(loans[i])}

CurrentLoanAmount(cid) ==
    Sum([i \in CurrentLoansOf(cid) |-> loans[i].loan_amount], CurrentLoansOf(cid))

CurrentInstallments(cid) ==
    Sum([i \in CurrentLoansOf(cid) |-> loans[i].monthly_repayment], CurrentLoansOf(cid))

ScoreReturned == request.op = "calculate_credit_score"

DecisionRequested ==
    request.op = "check_loan_eligibility" /\ request.customer_id \in DOMAIN customers

\* C1: whenever the amounts of the customer's current loans (end date absent
\* or today or later) add up to more than the approved limit,
\* calculate_credit_score returns 0.
C1_OverrideScoresZero ==
    (ScoreReturned /\ CurrentLoanAmount(request.customer_id)
                        > customers[request.customer_id].approved_limit)
        => response.value = 0

\* C2: when the burden check passes, a returned decision follows the tiers:
\* score > 50 approved at the requested rate; 30 < score <= 50 approved at
\* max(requested, 12); 10 < score <= 30 approved at max(requested, 16);
\* score <= 10 denied at the requested rate; and a customer without loans
\* asking for 5% is approved at 12.
C2_TieredPolicy ==
    (DecisionRequested /\ ~burden_exceeded(request.customer_id) /\ ~response.raised)
        => LET score == calculate_credit_score(request.customer_id)
               rate == request.interest_rate
               d == response.value
           IN  /\ score > 50 => d.approval /\ d.corrected_rate = rate
               /\ (30 < score /\ score <= 50) =>
                      /\ d.approval
                      /\ d.corrected_rate = IF rate > 12 THEN rate ELSE 12
               /\ (10 < score /\ score <= 30) =>
                      /\ d.approval
                      /\ d.corrected_rate = IF rate > 16 THEN rate ELSE 16
               /\ score <= 10 => ~d.approval /\ d.corrected_rate = rate
               /\ d.interest_rate = rate
               /\ ( /\ customer_loans(request.customer_id) = {}
                    /\ customers[request.customer_id].approved_limit >= 0
                    /\ rate = 5 )
                      => d.approval /\ d.corrected_rate = 12

\* C2 witness: a score of exactly 30 with a requested rate of 5%, approved
\* at 16%.
C2_Witness ==
    /\ DecisionRequested /\ ~burden_exceeded(request.customer_id)
    /\ ~response.raised
    /\ calculate_credit_score(request.customer_id) = 30
    /\ request.interest_rate = 5
    /\ response.value.approval /\ response.value.corrected_rate = 16

\* The outcome of check_loan_eligibility the burden rule prescribes: denied,
\* the rate not corrected, the installment at the requested rate and tenure.
DeniedOnBurden ==
    LET emi == calculate_monthly_installment(request.loan_amount,
                                             request.interest_rate, request.tenure)
    IN  IF emi.raised THEN response.raised
        ELSE response = Return(Decision(request.customer_id, FALSE,
                                        request.interest_rate,
                                        request.interest_rate, emi.value))

\* C3: when the installments of the customer's current loans (end date
\* absent or today or later) add up to more than 50% of the monthly income
\* the request is denied on burden, the installment computed at the
\* requested rate; at exactly 50% or less the decision is left to the score.
C3_BurdenDenies ==
    DecisionRequested =>
        IF 2 * CurrentInstallments(request.customer_id)
               > 100 * customers[request.customer_id].monthly_salary
        THEN DeniedOnBurden
        ELSE response.raised
             \/ response.value.approval
                  = (calculate_credit_score(request.customer_id) > 10)

\* C5: calculate_credit_score returns 50 for a customer without any loan.
C5_NoHistoryScoresFifty ==
    (ScoreReturned /\ customer_loans(request.customer_id) = {})
        => response.value = DefaultScore

\* C6: calculate_credit_score returns an integer from 0 to 100.
C6_ScoreInRange ==
    ScoreReturned => (response.value >= 0 /\ response.value <= 100)

\* C7: for an unknown customer id check_loan_eligibility returns
\* (None, False, requested rate, requested rate, 0) and leaves both tables
\* as they are, whatever the amount, the rate and the tenure.
C7_UnknownCustomer ==
    [][(request'.op = "check_loan_eligibility"
          /\ request'.customer_id \notin DOMAIN customers)
        => /\ response' = Return(Decision(NULL, FALSE, request'.interest_rate,
                                          request'.interest_rate, Cents(0)))
           /\ customers' = customers
           /\ loans' = loans]_vars

\* C7 witness: an unknown customer id with tenure 0 got the not-found tuple.
C7_Witness ==
    /\ request.op = "check_loan_eligibility"
    /\ request.customer_id \notin DOMAIN customers
    /\ request.tenure = 0
    /\ ~response.raised
    /\ response.value.customer = NULL
    /\ response.value.monthly_installment = Cents(0)

-----------------------------------------------------------------------------
(* Properties of the calculators (CalcSpec) *)

\* num / den rounded to the nearest integer, a half rounded up (den > 0).
RoundHalfUp(num, den) == (2 * num + den) \div (2 * den)

\* C9: calculate_approved_limit(x) is 36 * x rounded half-up to the nearest
\* multiple of 100,000; it is 1,800,000 for 50,000 and 400,000 for 10,000.
C9_LimitRoundsHalfUp ==
    request.op = "calculate_approved_limit" =>
        /\ response.value % 100000 = 0
        /\ response.value = RoundHalfUp(36 * request.monthly_salary, 100000) * 100000
        /\ request.monthly_salary = 50000 => response.value = 1800000
        /\ request.monthly_salary = 10000 => response.value = 400000

-----------------------------------------------------------------------------
(* Properties of the system (Spec) *)

\* A step in which a view or a task handled a request.
Handled(op) == request'.op = op

\* The decision check_loan_eligibility takes on the request being handled,
\* evaluated on the tables as they are before the step.
DecisionOn(data) ==
    check_loan_eligibility(data.customer_id, data.loan_amount,
                           data.interest_rate, data.tenure)

\* C4: create-loan stores exactly one new loan when the decision approves
\* and none otherwise; the stored loan has the requested amount and tenure,
\* the corrected rate, the returned installment, no installment paid on
\* time, start date today and no end date.
C4_CreateLoanStores ==
    [][(Handled("create-loan") /\ request'.data.valid)
        => LET data == request'.data
               r == DecisionOn(data)
           IN  IF /\ data.customer_id \in DOMAIN customers
                  /\ ~r.raised
                  /\ r.value.approval
               THEN \E id \in DOMAIN loans' \ DOMAIN loans :
                       /\ DOMAIN loans' = DOMAIN loans \cup {id}
                       /\ \A j \in DOMAIN loans : loans'[j] = loans[j]
                       /\ loans'[id].customer = data.customer_id
                       /\ loans'[id].loan_amount = data.loan_amount
                       /\ loans'[id].tenure = data.tenure
                       /\ loans'[id].interest_rate = r.value.corrected_rate
                       /\ Cents(loans'[id].monthly_repayment)
                            = r.value.monthly_installment
                       /\ response'.monthly_installment
                            = r.value.monthly_installment
                       /\ loans'[id].emis_paid_on_time = 0
                       /\ loans'[id].start_date = today
                       /\ loans'[id].end_date = NULL
               ELSE loans' = loans]_vars

\* The response says "not approved".
NotApproved(resp, op) ==
    /\ resp.status = 200
    /\ IF op = "create-loan" THEN ~resp.loan_approved ELSE ~resp.approval

\* C8: check-eligibility and create-loan answer an unknown customer id with
\* 404 and a denied request of a stored customer with 200 and approval
\* false; 404 is given to unknown ids only and "not approved" to stored
\* customers only.
C8_NotFoundIsNotDenied ==
    [][\A op \in {"check-eligibility", "create-loan"} :
        (Handled(op) /\ request'.data.valid)
        => LET data == request'.data
               known == data.customer_id \in DOMAIN customers
               r == DecisionOn(data)
           IN  /\ ~known => response'.status = 404
               /\ (known /\ ~r.raised /\ ~r.value.approval)
                      => NotApproved(response', op)
               /\ response'.status = 404 => ~known
               /\ NotApproved(response', op) => (known /\ ~r.value.approval)]_vars

\* C8 witness: create-loan answered a stored customer with "not approved".
C8_Witness ==
    /\ request.op = "create-loan" /\ request.data.valid
    /\ request.data.customer_id \in DOMAIN customers
    /\ response.status = 200
    /\ ~response.loan_approved

\* C10: every stored customer has an approved limit that is a non-negative
\* multiple of 100,000.
C10_LimitIsLakhMultiple ==
    \A c \in DOMAIN customers :
        /\ customers[c].approved_limit >= 0
        /\ customers[c].approved_limit % 100000 = 0

-----------------------------------------------------------------------------
(* Further properties of the scoring and decision engine (EngineSpec) *)

\* Counts of installments paid on time a loan of a history is changed to.
PaidOnTimeValues == {-3, 0, 1, 6, 12, 24, 25}

\* The customer's loans with the count of loan i changed to v: the loan
\* count, the count of this year's loans, the loan volume, the approved
\* limit and the total tenure stay as they are.
WithPaidOnTime(cid, i, v) ==
    [j \in customer_loans(cid) |->
        IF j = i THEN [loans[j] EXCEPT !.emis_paid_on_time = v] ELSE loans[j]]

\* The override test of calculate_credit_score does not fire.
OverrideNotTriggered(cid) ==
    LET cur == {i \in customer_loans(cid) : end_date__gte(loans[i], today)}
    IN  Sum([i \in cur |-> loans[i].loan_amount], cur) <= customers[cid].approved_limit

\* C12: with everything else held fixed and the override not triggered, a
\* history with more installments paid on time never gets a lower score
\* from calculate_credit_score, and one with fewer never a higher score.
C12_ScoreMonotoneInOnTime ==
    (ScoreReturned /\ OverrideNotTriggered(request.customer_id)) =>
        \A i \in customer_loans(request.customer_id), v \in PaidOnTimeValues :
            LET other == calculate_credit_score_on(customers[request.customer_id],
                             WithPaidOnTime(request.customer_id, i, v), today)
            IN  /\ v >= loans[i].emis_paid_on_time => other >= response.value
                /\ v <= loans[i].emis_paid_on_time => other <= response.value

\* C12 witness: a score was returned for a history in which one more
\* installment paid on time raises the score.
C12_Witness ==
    /\ ScoreReturned /\ OverrideNotTriggered(request.customer_id)
    /\ \E i \in customer_loans(request.customer_id) :
           /\ loans[i].emis_paid_on_time = 0
           /\ calculate_credit_score_on(customers[request.customer_id],
                  WithPaidOnTime(request.customer_id, i, 1), today) > response.value

\* floor(num / den) for den # 0.
Floor(num, den) == IF den > 0 THEN num \div den ELSE (-num) \div (-den)

\* The bands of the score as the claim C18 lists them.
BandB(n) == IF n <= 3 THEN 20 ELSE IF n <= 6 THEN 15 ELSE IF n <= 10 THEN 10 ELSE 5

BandC(n) == IF n = 0 THEN 20 ELSE IF n <= 2 THEN 15 ELSE IF n <= 4 THEN 10 ELSE 5

\* D on the ratio volume / limit, the ratio taken as 1 when the limit is 0.
BandD(volume, limit) ==
    LET num == IF limit = 0 THEN 1 ELSE IF limit > 0 THEN volume ELSE -volume
        den == IF limit = 0 THEN 1 ELSE Abs(limit)
    IN  IF 2 * num <= den THEN 25
        ELSE IF num <= den THEN 20
        ELSE IF num <= 2 * den THEN 10
        ELSE 5

\* min(100, floor(A + B + C + D)) for the customer's stored loans.
BandedScore(cid) ==
    LET all == customer_loans(cid)
        T == Sum([i \in all |-> loans[i].tenure], all)
        paid == Sum([i \in all |-> loans[i].emis_paid_on_time], all)
        thisYear == {i \in all : loans[i].start_date # NULL
                                   /\ year(loans[i].start_date) = year(today)}
        bcd == BandB(Cardinality(all)) + BandC(Cardinality(thisYear))
               + BandD(Sum([i \in all |-> loans[i].loan_amount], all),
                       customers[cid].approved_limit)
        total == IF T = 0 THEN bcd ELSE Floor(35 * paid + bcd * T, T)
    IN  IF total > 100 THEN 100 ELSE total

\* C18: for a customer with at least one loan whose current loans (end date
\* absent or today or later) do not exceed the approved limit,
\* calculate_credit_score returns min(100, floor(A + B + C + D)) with the
\* four components banded as listed.
C18_ScoreFormula ==
    ( /\ ScoreReturned
      /\ customer_loans(request.customer_id) # {}
      /\ CurrentLoanAmount(request.customer_id)
            <= customers[request.customer_id].approved_limit )
        => response.value = BandedScore(request.customer_id)

-----------------------------------------------------------------------------
(* Properties of the ingestion tasks (Spec) *)

\* C13: a run of ingest_customer_data or ingest_loan_data leaves the tables
\* in a state that a further run on the same file does not change: running
\* it twice (or again in a retry) stores what running it once stores.
C13_IngestionIdempotent ==
    [][/\ Handled("ingest_customer_data") =>
              ingest_customer_rows(request'.file, 1, customers', 0, 0).table = customers'
       /\ Handled("ingest_loan_data") =>
              ingest_loan_rows(request'.file, 1, loans', 0, 0).table = loans']_vars

\* A row without a cell that int() or float() rejects.
WellFormedCustomerRow(row) == TextCell \notin CustomerCells(row)

WellFormedLoanRow(row) ==
    TextCell \notin {row.customer_id, row.loan_id, row.loan_amount, row.tenure,
                     row.interest_rate, row.monthly_repayment, row.emis_paid_on_time}

\* C14: a run of an ingestion task completes with a result whatever rows
\* the file holds, and every well-formed row of the file that carries an id
\* (and, for a loan, a stored customer) is stored by the run, also when
\* another row of the file is malformed.
C14_MalformedRowDoesNotCrashBatch ==
    [][/\ Handled("ingest_customer_data") =>
              /\ response'.status = "SUCCESS"
              /\ \A k \in 1..Len(request'.file) :
                     LET row == request'.file[k]
                     IN  (WellFormedCustomerRow(row) /\ truthy(row.customer_id))
                             => row.customer_id \in DOMAIN customers'
       /\ Handled("ingest_loan_data") =>
              /\ response'.status = "SUCCESS"
              /\ \A k \in 1..Len(request'.file) :
                     LET row == request'.file[k]
                     IN  ( /\ WellFormedLoanRow(row)
                           /\ truthy(row.loan_id)
                           /\ row.customer_id \in DOMAIN customers )
                             => row.loan_id \in DOMAIN loans']_vars

\* A step that is a run of an ingestion task.
TaskRun == Handled("ingest_customer_data") \/ Handled("ingest_loan_data")

\* C20: a run of an ingestion task is one of at most 4 attempts (the first
\* and 3 retries); a failing attempt before the fourth schedules exactly
\* the next attempt, the failing fourth attempt ends the task in a
\* permanent failure, and a run that succeeds is not retried.
C20_RetriesBounded ==
    [][TaskRun =>
        /\ request'.retries \in 0..3
        /\ response'.status \in {"SUCCESS", "RETRY", "FAILURE"}
        /\ response'.status = "SUCCESS" => task' = Idle
        /\ response'.status = "RETRY" =>
               /\ request'.retries < 3
               /\ task' = [state |-> "retry", name |-> request'.op,
                           file |-> request'.file,
                           retries |-> request'.retries + 1]
        /\ response'.status = "FAILURE" =>
               (request'.retries = 3 /\ task' = Idle)]_vars

\* C20 witness: the fourth attempt of a task failed and the task ended in
\* a permanent failure.
C20_Witness ==
    /\ request.op \in {"ingest_customer_data", "ingest_loan_data"}
    /\ request.retries = 3
    /\ response.status = "FAILURE"
    /\ task = Idle

-----------------------------------------------------------------------------
(* Further properties of the calculators (CalcSpec) *)

\* C15: calculate_monthly_installment with a tenure of zero or less ends in
\* an error and returns no installment, whatever the principal and rate.
C15_NonPositiveTenureIsFatal ==
    (request.op = "calculate_monthly_installment" /\ request.tenure_months <= 0)
        => response.raised

-----------------------------------------------------------------------------
(* Further properties of the system (Spec) *)

\* C16: GET /view-loans/<customer_id> lists exactly the current loans of
\* the customer (end date absent or today or later), one entry per loan,
\* and no loan whose end date is in the past.
C16_ViewLoansListsCurrentLoans ==
    (request.op = "view-loans" /\ response.status = 200) =>
        /\ {item.loan_id : item \in response.items}
              = CurrentLoansOf(request.customer_id)
        /\ Cardinality(response.items)
              = Cardinality(CurrentLoansOf(request.customer_id))

\* The loans create-loan stored for the customer and nobody closed: their
\* end date is still absent.
CreatedUnclosed(cid) == {i \in customer_loans(cid) : loans[i].end_date = NULL}

\* C17: once the installments of the customer's created, unclosed loans add
\* up to more than 50% of the monthly income, no further check-eligibility
\* or create-loan request of the customer is approved; and while their
\* amounts add up to more than the approved limit the customer's score is 0.
C17_CreatedLoanStaysCurrent ==
    [][\A op \in {"check-eligibility", "create-loan"} :
        ( /\ Handled(op) /\ request'.data.valid
          /\ request'.data.customer_id \in DOMAIN customers )
        => LET cid == request'.data.customer_id
               mine == CreatedUnclosed(cid)
           IN  /\ 2 * Sum([i \in mine |-> loans[i].monthly_repayment], mine)
                      > 100 * customers[cid].monthly_salary
                    => /\ response'.status # 201
                       /\ response'.status = 200 => NotApproved(response', op)
               /\ Sum([i \in mine |-> loans[i].loan_amount], mine)
                      > customers[cid].approved_limit
                    => calculate_credit_score(cid) = 0]_vars

\* C19: a check-eligibility or create-loan request with a tenure of zero or
\* less is rejected at the boundary (a 4xx response: 400, or 404 for an
\* unknown customer) whatever the customer, the amount and the rate; no
\* installment is computed for it and it stores no loan.
C19_TenureBelowOneRejected ==
    [][\A op \in {"check-eligibility", "create-loan"} :
        (Handled(op) /\ request'.data.valid /\ request'.data.tenure < 1)
        => /\ response'.status \in {400, 404}
           /\ loans' = loans]_vars

====
